---- MODULE Spec2Model ----
(***************************************************************************)
(* Model of src/src/main.rs (nanai10a/bbb.sc): the ptimg region-copy       *)
(* language parser `parse`, the compositor `Replacer::apply`,              *)
(* `Ptimg::restore`, the cache-or-fetch function                           *)
(* `try_use_cache_otherwise_fetch`, the grid loop of `main` and the        *)
(* command line reader `parse_args` with `take_arg!`.                      *)
(*                                                                         *)
(* Text is modelled as a sequence of one-character strings, so that the    *)
(* parser really consumes characters.  A pixel is an integer; 0 is the     *)
(* all-zero (transparent) RGBA pixel that RgbaImage::new fills with.       *)
(***************************************************************************)
EXTENDS Integers, Sequences, FiniteSets, TLC

\* Ptimg::restore: its arguments, its position and its locals
VARIABLES ptimg, map, vi, ci, s, cur, dst, out, pc

\* the result of an earlier call of restore, kept by a caller that calls twice
VARIABLES first

\* try_use_cache_otherwise_fetch: the files, the directories, what the
\* server answers, the requests sent so far and the last value returned
VARIABLES fs, dirs, server, reqs, ret

\* main: the loop indices, the position of the driver, the bytes of the
\* descriptor and of the image of the cell, the canvas to write, and the
\* steps taken so far
VARIABLES idx, jdx, dpc, ptb, rdb, ogimg, log

\* parse_args and take_arg!: the argument list, the position of the fold,
\* its state, the map, and the position of the reader
VARIABLES argv, ai, state, args, apc

restoreVars == <<ptimg, map, vi, ci, s, cur, dst, out, pc>>

cacheVars == <<fs, dirs, server, reqs, ret>>

driverVars == <<idx, jdx, dpc, ptb, rdb, ogimg, log>>

argVars == <<argv, ai, state, args, apc>>

\* what restore does not touch
env == <<first, cacheVars, driverVars, argVars>>

vars == <<restoreVars, env>>

(***************************************************************************)
(* Characters                                                              *)
(***************************************************************************)
DigitChars == <<"0", "1", "2", "3", "4", "5", "6", "7", "8", "9">>

Digit == {DigitChars[i] : i \in 1..10}

Alpha == {"a", "b", "c", "d", "e", "f", "g", "h", "i", "j", "k", "l", "m",
          "n", "o", "p", "q", "r", "s", "t", "u", "v", "w", "x", "y", "z",
          "A", "B", "C", "D", "E", "F", "G", "H", "I", "J", "K", "L", "M",
          "N", "O", "P", "Q", "R", "S", "T", "U", "V", "W", "X", "Y", "Z"}

DigitVal(c) == CHOOSE i \in 0..9 : DigitChars[i + 1] = c

Drop(t, n) == SubSeq(t, n + 1, Len(t))

(***************************************************************************)
(* nom combinators used by parse.  A parser maps the remaining input to    *)
(* its IResult, given as a set: empty for Err, and for Ok((rest, val)) the *)
(* one record [rest, val].  A sequence of parsers then reads as nested     *)
(* set constructors, each parser run on what the one before it left.       *)
(***************************************************************************)
Err == {}

Ok(rest, val) == {[rest |-> rest, val |-> val]}

\* tag(t): the input must start with t
tag(t, in) ==
    IF Len(in) >= Len(t) /\ SubSeq(in, 1, Len(t)) = t
    THEN Ok(Drop(in, Len(t)), t)
    ELSE Err

\* length of the longest prefix of `in` made of characters of class
PrefixLen(class, in) ==
    IF \A i \in 1..Len(in) : in[i] \in class
    THEN Len(in)
    ELSE (CHOOSE i \in 1..Len(in) :
             /\ in[i] \notin class
             /\ \A j \in 1..(i - 1) : in[j] \in class) - 1

\* alpha1 / digit1: one or more characters of the class
take_while1(class, in) ==
    IF PrefixLen(class, in) = 0 THEN Err
    ELSE Ok(Drop(in, PrefixLen(class, in)), SubSeq(in, 1, PrefixLen(class, in)))

alpha1(in) == take_while1(Alpha, in)

digit1(in) == take_while1(Digit, in)

\* all_consuming(p), given the result of p: p must leave no input
all_consuming(rs) == {r \in rs : r.rest = <<>>}

(***************************************************************************)
(* str::parse::<T>() on a string of decimal digits: T's range is given by  *)
(* the digits of T::MAX, compared digit by digit (the values themselves    *)
(* exceed the integers TLC computes with).                                 *)
(***************************************************************************)
U32 == <<"4", "2", "9", "4", "9", "6", "7", "2", "9", "5">>

I64 == <<"9", "2", "2", "3", "3", "7", "2", "0", "3", "6",
         "8", "5", "4", "7", "7", "5", "8", "0", "7">>

StripZeros(d) == Drop(d, PrefixLen({"0"}, d))

DigitsLeq(a, b) ==
    \/ Len(a) < Len(b)
    \/ /\ Len(a) = Len(b)
       /\ LET diff == {i \in 1..Len(a) : a[i] # b[i]}
          IN  \/ diff = {}
              \/ LET m == CHOOSE i \in diff : \A j \in diff : i <= j
                 IN  DigitVal(a[m]) < DigitVal(b[m])

RECURSIVE Horner(_)
Horner(d) ==
    IF d = <<>> THEN 0
    ELSE 10 * Horner(SubSeq(d, 1, Len(d) - 1)) + DigitVal(d[Len(d)])

\* Ok(value) as {value}, Err as {}
FromStr(T, d) ==
    IF DigitsLeq(StripZeros(d), T) THEN {Horner(StripZeros(d))} ELSE {}

(***************************************************************************)
(* parse (main.rs 233-259)                                                 *)
(***************************************************************************)
\* fn num<T>: map_res(digit1, |s| s.parse::<T>())
num(T, in) ==
    UNION { { [rest |-> d.rest, val |-> v] : v \in FromStr(T, d.val) } : d \in digit1(in) }

Vec2(x, y) == [x |-> x, y |-> y]

\* fn vec<T>: map(separated_pair(num, tag(","), num), Vec2::new)
vec(T, in) ==
    UNION { UNION { { [rest |-> b.rest, val |-> Vec2(a.val, b.val)] :
                        b \in num(T, m.rest) } :
                    m \in tag(<<",">>, a.rest) } :
            a \in num(T, in) }

\* let src = separated_pair(vec, tag("+"), vec)
src(in) ==
    UNION { UNION { { [rest |-> b.rest, val |-> <<a.val, b.val>>] :
                        b \in vec(U32, m.rest) } :
                    m \in tag(<<"+">>, a.rest) } :
            a \in vec(U32, in) }

\* let bdy = separated_pair(src, tag(">"), vec)
bdy(in) ==
    UNION { UNION { { [rest |-> b.rest, val |-> <<a.val, b.val>>] :
                        b \in vec(I64, m.rest) } :
                    m \in tag(<<">">>, a.rest) } :
            a \in src(in) }

\* let whl = separated_pair(alpha1, tag(":"), bdy)
whl(in) ==
    UNION { UNION { { [rest |-> b.rest, val |-> <<a.val, b.val>>] :
                        b \in bdy(m.rest) } :
                    m \in tag(<<":">>, a.rest) } :
            a \in alpha1(in) }

\* Replacer::new(size, src, dst)
ReplacerNewSwapped(size, srcOff, dstOff) ==
    [size |-> srcOff, src |-> size, dst |-> dstOff]

ReplacerNew(size, srcOff, dstOff) ==
    [size |-> size, src |-> srcOff, dst |-> dstOff]

\* what parse gives when it does not return
Panic == [ok |-> FALSE]

\* the match of line 253 on a result r: Ok(("", (key, ((src, size), dst))))
\* gives (key, Replacer::new(size, src, dst))
Matched(r) ==
    [ok  |-> TRUE,
     key |-> r.val[1],
     rep |-> ReplacerNew(r.val[2][1][2], r.val[2][1][1], r.val[2][2])]

\* a parse that keeps whatever whl matched and ignores the unconsumed rest
parseNotAllConsuming(in) ==
    IF whl(in) = {} THEN Panic ELSE CHOOSE x \in {Matched(r) : r \in whl(in)} : TRUE

\* match all_consuming(whl)(s): Ok gives the pair, Err(e) panics
parse(in) ==
    IF all_consuming(whl(in)) = {} THEN Panic
    ELSE CHOOSE x \in {Matched(r) : r \in all_consuming(whl(in))} : TRUE

(***************************************************************************)
(* Images.  An image is [w, h, px] with px a function on                   *)
(* (0..w-1) \X (0..h-1).                                                   *)
(***************************************************************************)
Coords(w, h) == (0..(w - 1)) \X (0..(h - 1))

\* image::RgbaImage::new(width, height): every pixel zero
RgbaImageNewDirty(w, h) == [w |-> w, h |-> h, px |-> [p \in Coords(w, h) |-> 1]]

RgbaImageNew(w, h) == [w |-> w, h |-> h, px |-> [p \in Coords(w, h) |-> 0]]

Min(a, b) == IF a < b THEN a ELSE b

Clamp(v, lo, hi) == IF v < lo THEN lo ELSE IF v > hi THEN hi ELSE v

\* a crop that keeps the size and forgets the origin
crop_imm_at_origin(image, x, y, width, height) ==
    [image   |-> image,
     xoffset |-> 0,
     yoffset |-> 0,
     w       |-> Min(width, image.w - Min(x, image.w)),
     h       |-> Min(height, image.h - Min(y, image.h))]

\* image::imageops::crop_imm(image, x, y, width, height): an immutable
\* sub-view; the rectangle is first cut down to the image's bounds
crop_imm(image, x, y, width, height) ==
    LET cx == Min(x, image.w)
        cy == Min(y, image.h)
    IN  [image   |-> image,
         xoffset |-> cx,
         yoffset |-> cy,
         w       |-> Min(width, image.w - cx),
         h       |-> Min(height, image.h - cy)]

\* SubImage::get_pixel
SubGetPixel(part, x, y) == part.image.px[<<x + part.xoffset, y + part.yoffset>>]

\* bounds that clip at the canvas edge without moving the origin in `top`
overlay_bounds_unshifted(bw, bh, tw, th, x, y) ==
    IF x > bw \/ y > bh \/ x + tw <= 0 \/ y + th <= 0
    THEN [obx |-> 0, oby |-> 0, otx |-> 0, oty |-> 0, rw |-> 0, rh |-> 0]
    ELSE [obx |-> Clamp(x, 0, bw),
          oby |-> Clamp(y, 0, bh),
          otx |-> 0,
          oty |-> 0,
          rw  |-> Clamp(x + tw, 0, bw) - Clamp(x, 0, bw),
          rh  |-> Clamp(y + th, 0, bh) - Clamp(y, 0, bh)]

\* imageops' overlay_bounds_ext: the overlap of `top` placed at (x, y) on
\* `bottom`, as origins in both images and a range
overlay_bounds_ext(bw, bh, tw, th, x, y) ==
    IF x > bw \/ y > bh \/ x + tw <= 0 \/ y + th <= 0
    THEN [obx |-> 0, oby |-> 0, otx |-> 0, oty |-> 0, rw |-> 0, rh |-> 0]
    ELSE LET obx == Clamp(x, 0, bw)
             oby == Clamp(y, 0, bh)
         IN  [obx |-> obx,
              oby |-> oby,
              otx |-> Clamp(-x, 0, tw),
              oty |-> Clamp(-y, 0, th),
              rw  |-> Clamp(x + tw, 0, bw) - obx,
              rh  |-> Clamp(y + th, 0, bh) - oby]

\* a replace that paints only the pixels of `bottom` that are still zero
replace_unpainted(bottom, top, x, y) ==
    LET b == overlay_bounds_ext(bottom.w, bottom.h, top.w, top.h, x, y)
    IN  [bottom EXCEPT !.px =
            [p \in Coords(bottom.w, bottom.h) |->
                IF /\ b.obx <= p[1] /\ p[1] < b.obx + b.rw
                   /\ b.oby <= p[2] /\ p[2] < b.oby + b.rh
                   /\ bottom.px[p] = 0
                THEN SubGetPixel(top, b.otx + (p[1] - b.obx), b.oty + (p[2] - b.oby))
                ELSE bottom.px[p]]]

\* image::imageops::replace(bottom, top, x, y): for every (i, j) of the
\* range, bottom.put_pixel(obx + i, oby + j, top.get_pixel(otx + i, oty + j))
replace(bottom, top, x, y) ==
    LET b == overlay_bounds_ext(bottom.w, bottom.h, top.w, top.h, x, y)
    IN  [bottom EXCEPT !.px =
            [p \in Coords(bottom.w, bottom.h) |->
                IF /\ b.obx <= p[1] /\ p[1] < b.obx + b.rw
                   /\ b.oby <= p[2] /\ p[2] < b.oby + b.rh
                THEN SubGetPixel(top, b.otx + (p[1] - b.obx), b.oty + (p[2] - b.oby))
                ELSE bottom.px[p]]]

\* Replacer::apply (main.rs 221-230)
apply(rep, image, canvas) ==
    replace(canvas,
            crop_imm(image, rep.src.x, rep.src.y, rep.size.x, rep.size.y),
            rep.dst.x, rep.dst.y)

\* the resolver `map: impl Fn(&str) -> &DynamicImage` handed to restore: a
\* total function, given as a table and the image of every other key
Resolve(m, key) == IF key \in DOMAIN m.table THEN m.table[key] ELSE m.other

(***************************************************************************)
(* Formatting of an instruction, "<key>:<a>,<b>+<c>,<d>><e>,<f>", the six  *)
(* numbers in the order they are written (Rust's Display of integers).     *)
(***************************************************************************)
RECURSIVE FormatNat(_)
FormatNat(n) ==
    IF n < 10 THEN <<DigitChars[n + 1]>>
    ELSE FormatNat(n \div 10) \o <<DigitChars[(n % 10) + 1]>>

FormatInt(i) == IF i < 0 THEN <<"-">> \o FormatNat(-i) ELSE FormatNat(i)

Tup(key, a, b, c, d, e, f) ==
    [key |-> key, a |-> a, b |-> b, c |-> c, d |-> d, e |-> e, f |-> f]

Format(t) ==
    t.key \o <<":">> \o FormatNat(t.a) \o <<",">> \o FormatNat(t.b)
          \o <<"+">> \o FormatNat(t.c) \o <<",">> \o FormatNat(t.d)
          \o <<">">> \o FormatInt(t.e) \o <<",">> \o FormatInt(t.f)

(***************************************************************************)
(* Inputs                                                                  *)
(***************************************************************************)
MaxCoords == 2

MaxViews == 2

SeqsUpTo(S, n) == UNION {[1..k -> S] : k \in 0..n}

\* a decoded source image: no pixel of it is the all-zero pixel, and its
\* pixels differ from each other and from those of the other images
SrcImage(id, w, h) ==
    [w |-> w, h |-> h,
     px |-> [p \in Coords(w, h) |-> (10000 * id) + (p[2] * w) + p[1] + 1]]

KeyA == <<"a">>

KeyB == <<"b">>

KeyTile == <<"t", "i", "l", "e">>

ImgA == SrcImage(1, 3, 3)

ImgB == SrcImage(2, 2, 3)

Tile == SrcImage(3, 64, 64)

\* resolvers: a keyed one, and the driver's `|_| &src` (main.rs 56)
KeyedMap == [table |-> (KeyA :> ImgA) @@ (KeyB :> ImgB), other |-> ImgA]

TileMap == [table |-> <<>>, other |-> Tile]

View(width, height, coords) ==
    [width |-> width, height |-> height, coords |-> coords]

\* instructions of the small scenes, as the tuples they are formatted from
GeoTuples ==
    { Tup(KeyA, 0, 0, 2, 2, 0, 0), Tup(KeyA, 1, 1, 2, 2, 1, 1),
      Tup(KeyB, 0, 0, 1, 1, 1, 0), Tup(KeyA, 2, 2, 2, 2, 0, 0),
      Tup(KeyB, 0, 1, 2, 2, 0, 1), Tup(KeyA, 0, 0, 3, 3, 3, 3),
      Tup(KeyA, 1, 0, 0, 0, 0, 0), Tup(KeyA, 5, 5, 1, 1, 0, 0),
      Tup(KeyB, 1, 1, 1, 2, 0, 0), Tup(KeyA, 0, 1, 3, 1, 0, 1),
      Tup(KeyA, 0, 0, 1, 1, 0, -1) }

\* "a:1,1+0,0": the destination is missing
MissingDest == <<"a", ":", "1", ",", "1", "+", "0", ",", "0">>

GeoStrings == {Format(t) : t \in GeoTuples} \cup {MissingDest}

ViewStrings ==
    { Format(Tup(KeyA, 0, 0, 2, 2, 0, 0)), Format(Tup(KeyB, 0, 1, 2, 2, 1, 0)),
      MissingDest }

EndToEnd ==
    [views |-> << View(64, 64, << Format(Tup(KeyTile, 32, 32, 0, 0, 0, 0)),
                                  Format(Tup(KeyTile, 32, 32, 32, 32, 32, 32)) >>) >>]

OneViewPtimgs ==
    { [views |-> << View(d[1], d[2], c) >>] :
        d \in {<<2, 2>>, <<3, 2>>}, c \in SeqsUpTo(GeoStrings, MaxCoords) }

ManyViewPtimgs ==
    { [views |-> v] :
        v \in SeqsUpTo({ View(d[1], d[2], c) :
                            d \in {<<2, 2>>, <<1, 3>>},
                            c \in SeqsUpTo(ViewStrings, 1) }, MaxViews) }

Scenes ==
    { <<p, KeyedMap>> : p \in OneViewPtimgs \cup ManyViewPtimgs }
        \cup { <<EndToEnd, TileMap>> }

\* inputs of parse: well-formed instructions, as tuples of the text's fields
MaxNum == 1

KeyTileA == <<"t", "i", "l", "e", "A">>

Pairs == {<<x, y>> : x, y \in 0..MaxNum} \cup {<<256, 256>>}

DestPairs == {<<x, y>> : x, y \in (-MaxNum)..MaxNum} \cup {<<128, -64>>}

ParseTuples ==
    { Tup(k, p[1], p[2], q[1], q[2], r[1], r[2]) :
        k \in {KeyA, KeyTileA}, p \in Pairs, q \in Pairs, r \in DestPairs }

\* malformed and unusual variants of a well-formed instruction
TrailingGarbage(t) == Format(t) \o <<"x">>

LeadingGarbage(t) == <<"#">> \o Format(t)

MissingField(t) ==
    t.key \o <<":">> \o FormatNat(t.a) \o <<",">> \o FormatNat(t.b)
          \o <<"+">> \o FormatNat(t.c) \o <<",">> \o FormatNat(t.d)

WithFirstNumber(t, n) ==
    t.key \o <<":">> \o n \o Drop(Format(t), Len(t.key) + 1 + Len(FormatNat(t.a)))

NonNumeric(t) == WithFirstNumber(t, <<"x">>)

TooBigForU32 ==
    <<"4", "2", "9", "4", "9", "6", "7", "2", "9", "6">>

Overflowing(t) == WithFirstNumber(t, TooBigForU32)

ZeroPadded(t) == WithFirstNumber(t, <<"0", "0">> \o FormatNat(t.a))

EmptyKey(t) == Drop(Format(t), Len(t.key))

ParseStrings ==
    UNION { { Format(t), TrailingGarbage(t), LeadingGarbage(t), MissingField(t),
              NonNumeric(t), Overflowing(t), ZeroPadded(t), EmptyKey(t) } :
            t \in ParseTuples }

\* inputs of Replacer::apply called on its own: any Replacer value, also
\* those no instruction text yields, on an empty or an already painted canvas
MaxOff == 1

MaxSize == 3

MaxDst == 3

Painted(w, h) ==
    [w |-> w, h |-> h, px |-> [p \in Coords(w, h) |-> 9000 + (p[2] * w) + p[1]]]

Replacers ==
    { ReplacerNew(Vec2(sz[1], sz[2]), Vec2(so[1], so[2]), Vec2(d[1], d[2])) :
        sz \in (0..MaxSize) \X (0..MaxSize),
        so \in (0..MaxOff) \X (0..MaxOff),
        d  \in ((-MaxDst)..MaxDst) \X ((-MaxDst)..MaxDst) }

ImgTen == SrcImage(4, 10, 10)

TenMap == [table |-> <<>>, other |-> ImgTen]

\* the 10x10 rectangle placed at (-5,-5) on a 10x10 canvas
TenRep == ReplacerNew(Vec2(10, 10), Vec2(0, 0), Vec2(-5, -5))

ApplyCalls ==
    { <<r, KeyedMap, c>> :
        r \in Replacers, c \in {RgbaImageNew(2, 2), Painted(3, 2)} }
        \cup { <<TenRep, TenMap, RgbaImageNew(10, 10)>> }

(***************************************************************************)
(* Ptimg::restore (main.rs 162-176) as a state machine.  The iterators are *)
(* lazy: each view's canvas is made, then each of its coords is parsed and *)
(* applied before the next one is parsed; the canvas is pushed to the      *)
(* result when the view's coords are exhausted.                            *)
(***************************************************************************)
NoImage == RgbaImageNew(0, 0)

(***************************************************************************)
(* The parts of the state that restore does not use, before any caller,    *)
(* cache, driver or command line has acted.                                *)
(***************************************************************************)
\* no earlier call of restore
NoFirst == [called |-> FALSE]

\* Option: None and Some(x)
None == [some |-> FALSE]

Some(x) == [some |-> TRUE, val |-> x]

\* no bytes read yet, no value returned yet
NoBytes == [kind |-> "none"]

NoRet == [kind |-> "none"]

EnvIdle ==
    /\ first = NoFirst
    /\ fs = <<>>
    /\ dirs = {}
    /\ server = <<>>
    /\ reqs = <<>>
    /\ ret = NoRet
    /\ idx = 0
    /\ jdx = 0
    /\ dpc = "idle"
    /\ ptb = NoBytes
    /\ rdb = NoBytes
    /\ ogimg = NoImage
    /\ log = <<>>
    /\ argv = <<>>
    /\ ai = 0
    /\ state = None
    /\ args = <<>>
    /\ apc = "idle"

StartAt(p, m) ==
    /\ ptimg = p
    /\ map = m
    /\ vi = 1
    /\ ci = 1
    /\ s = <<>>
    /\ cur = Panic
    /\ dst = NoImage
    /\ out = <<>>
    /\ pc = "view"
    /\ EnvIdle

Init == \E sc \in Scenes : StartAt(sc[1], sc[2])

\* BeginView with the canvas of the view before reused when it has the size
BeginViewReusing ==
    /\ pc = "view"
    /\ vi <= Len(ptimg.views)
    /\ dst' = IF dst.w = ptimg.views[vi].width /\ dst.h = ptimg.views[vi].height
              THEN dst
              ELSE RgbaImageNew(ptimg.views[vi].width, ptimg.views[vi].height)
    /\ ci' = 1
    /\ pc' = "coords"
    /\ UNCHANGED <<ptimg, map, vi, s, cur, out>>
    /\ UNCHANGED env

\* line 166: let mut dst = image::RgbaImage::new(v.width, v.height)
BeginView ==
    /\ pc = "view"
    /\ vi <= Len(ptimg.views)
    /\ dst' = RgbaImageNew(ptimg.views[vi].width, ptimg.views[vi].height)
    /\ ci' = 1
    /\ pc' = "coords"
    /\ UNCHANGED <<ptimg, map, vi, s, cur, out>>
    /\ UNCHANGED env

\* line 170: .map(parse), the parse succeeds
ParseOk ==
    /\ pc = "coords"
    /\ ci <= Len(ptimg.views[vi].coords)
    /\ s' = ptimg.views[vi].coords[ci]
    /\ parse(s').ok
    /\ cur' = parse(s')
    /\ pc' = "apply"
    /\ UNCHANGED <<ptimg, map, vi, ci, dst, out>>
    /\ UNCHANGED env

\* line 170 and 256: .map(parse), Err(e) => panic!
ParsePanic ==
    /\ pc = "coords"
    /\ ci <= Len(ptimg.views[vi].coords)
    /\ s' = ptimg.views[vi].coords[ci]
    /\ ~parse(s').ok
    /\ pc' = "panic"
    /\ UNCHANGED <<ptimg, map, vi, ci, cur, dst, out>>
    /\ UNCHANGED env

\* line 171: rep.apply(map(key), &mut dst)
ApplyRep ==
    /\ pc = "apply"
    /\ dst' = apply(cur.rep, Resolve(map, cur.key), dst)
    /\ ci' = ci + 1
    /\ pc' = "coords"
    /\ UNCHANGED <<ptimg, map, vi, s, cur, out>>
    /\ UNCHANGED env

\* line 173: the view's closure returns dst, which collect appends
EndView ==
    /\ pc = "coords"
    /\ ci > Len(ptimg.views[vi].coords)
    /\ out' = Append(out, dst)
    /\ vi' = vi + 1
    /\ pc' = "view"
    /\ UNCHANGED <<ptimg, map, ci, s, cur, dst>>
    /\ UNCHANGED env

\* line 175: collect returns the Vec
Return ==
    /\ pc = "view"
    /\ vi > Len(ptimg.views)
    /\ pc' = "done"
    /\ UNCHANGED <<ptimg, map, vi, ci, s, cur, dst, out>>
    /\ UNCHANGED env

Next == BeginView \/ ParseOk \/ ParsePanic \/ ApplyRep \/ EndView \/ Return

Spec == Init /\ [][Next]_vars

\* parse alone: restore on a descriptor of one view with one instruction
InitParse ==
    \E str \in ParseStrings :
        StartAt([views |-> << View(2, 2, <<str>>) >>], [table |-> <<>>, other |-> ImgA])

SpecParse == InitParse /\ [][Next]_vars

\* Replacer::apply alone
InitApply ==
    \E c \in ApplyCalls :
        /\ ptimg = [views |-> <<>>]
        /\ map = c[2]
        /\ vi = 1
        /\ ci = 1
        /\ s = <<>>
        /\ cur = [ok |-> TRUE, key |-> KeyA, rep |-> c[1]]
        /\ dst = c[3]
        /\ out = <<>>
        /\ pc = "call"
        /\ EnvIdle

ApplyCall ==
    /\ pc = "call"
    /\ dst' = apply(cur.rep, Resolve(map, cur.key), dst)
    /\ pc' = "ret"
    /\ UNCHANGED <<ptimg, map, vi, ci, s, cur, out>>
    /\ UNCHANGED env

NextApply == ApplyCall

SpecApply == InitApply /\ [][NextApply]_vars

(***************************************************************************)
(* The grammar of section 4.1 of the specification, as a scan of the text  *)
(* character by character: field 0 is the key, fields 1..6 the numbers;    *)
(* n is the number of characters of the current field read so far (-1: a   *)
(* sign and no digit yet).  Only the two destination numbers take a sign.  *)
(***************************************************************************)
Separators == <<",", "+", ",", ">", ",">>

RECURSIVE GrammarScan(_, _, _, _)
GrammarScan(str, i, f, n) ==
    IF i > Len(str) THEN f = 6 /\ n >= 1
    ELSE LET c == str[i]
         IN  IF f = 0
             THEN IF c \in Alpha THEN GrammarScan(str, i + 1, 0, 1)
                  ELSE c = ":" /\ n >= 1 /\ GrammarScan(str, i + 1, 1, 0)
             ELSE IF c \in Digit THEN GrammarScan(str, i + 1, f, 1)
                  ELSE IF c = "-" THEN f >= 5 /\ n = 0 /\ GrammarScan(str, i + 1, f, -1)
                  ELSE f <= 5 /\ c = Separators[f] /\ n >= 1
                       /\ GrammarScan(str, i + 1, f + 1, 0)

Matches(str) == GrammarScan(str, 1, 0, 0)

\* the text just handed to parse, and whether parse returned or panicked
JustParsed == pc \in {"apply", "panic"}

\* every well-formed tuple of the inputs with its text
Formatted == {<<t, Format(t)>> : t \in ParseTuples}

\* the tuples whose text parse was just handed
ParsedTuples == IF JustParsed THEN {f[1] : f \in {g \in Formatted : g[2] = s}} ELSE {}

C2_SignedDestAccepted ==
    \A t \in ParsedTuples :
        (t.e < 0 \/ t.f < 0) =>
            (pc = "apply" /\ cur.rep.dst = Vec2(t.e, t.f))

(***************************************************************************)
(* C3.  parse is all-consuming: it returns only for a text that matches    *)
(* the whole grammar; for any other text (trailing or leading garbage, a   *)
(* missing field, a non-numeric component, an empty key) it fails, and no  *)
(* result is built from a prefix.                                          *)
(***************************************************************************)
C3_OnlyWholeMatchesParse ==
    JustParsed => (IF Matches(s) THEN TRUE ELSE pc = "panic" /\ cur = Panic)

\* parse has failed on a well-formed instruction followed by "x"
C3_Witness ==
    /\ pc = "panic"
    /\ \E t \in ParseTuples : t.e >= 0 /\ t.f >= 0 /\ s = TrailingGarbage(t)

(***************************************************************************)
(* C4.  A malformed instruction is a failure returned to the caller: in no *)
(* execution does a parse failure abort the process.                       *)
(***************************************************************************)
C4_ParseFailureNeverAborts == pc # "panic"

(***************************************************************************)
(* C5.  Round trip: formatting (key, w, h, sx, sy, dx, dy), dx and dy of   *)
(* either sign, as "<key>:<w>,<h>+<sx>,<sy>><dx>,<dy>" and parsing it      *)
(* yields back key, copySize (w,h), sourceOffset (sx,sy), destOffset       *)
(* (dx,dy).  Stated here of the tuples with a negative dx or dy.           *)
(***************************************************************************)
C5_RoundTripSignedDest ==
    \A t \in ParsedTuples :
        (t.e < 0 \/ t.f < 0) =>
            /\ pc = "apply"
            /\ cur.key = t.key
            /\ cur.rep.size = Vec2(t.a, t.b)
            /\ cur.rep.src = Vec2(t.c, t.d)
            /\ cur.rep.dst = Vec2(t.e, t.f)

(***************************************************************************)
(* Rectangles of an instruction r on a canvas                              *)
(***************************************************************************)
\* p lies in the destination rectangle [dst, dst + size) of r
InRect(p, r) ==
    /\ r.dst.x <= p[1] /\ p[1] < r.dst.x + r.size.x
    /\ r.dst.y <= p[2] /\ p[2] < r.dst.y + r.size.y

\* the source coordinate that r maps to canvas coordinate p
SourceOf(p, r) == <<r.src.x + (p[1] - r.dst.x), r.src.y + (p[2] - r.dst.y)>>

\* the source rectangle [src, src + size) of r lies inside image
Fits(r, image) ==
    /\ r.src.x + r.size.x <= image.w
    /\ r.src.y + r.size.y <= image.h

(***************************************************************************)
(* C6.  Joint clipping: applying one instruction with copySize (w,h),      *)
(* sourceOffset (sx,sy), destOffset (dx,dy) to a W x H canvas sets canvas  *)
(* pixel (x,y) to source pixel (sx + x - dx, sy + y - dy) for exactly the  *)
(* (x,y) of the canvas with dx <= x < dx+w and dy <= y < dy+h, leaves      *)
(* every other pixel as it was, and never fails, whatever the sign or size *)
(* of destOffset.  It is stated of the instructions for which the source   *)
(* pixels it names exist in the source image.                              *)
(***************************************************************************)
C6_JointClipping ==
    [][ pc = "call" =>
          LET r     == cur.rep
              image == Resolve(map, cur.key)
              all   == Coords(dst.w, dst.h)
          IN  (\A p \in all : InRect(p, r) => SourceOf(p, r) \in Coords(image.w, image.h))
              => /\ pc' = "ret"
                 /\ dst'.w = dst.w
                 /\ dst'.h = dst.h
                 /\ \A p \in all :
                       dst'.px[p] = IF InRect(p, r) THEN image.px[SourceOf(p, r)]
                                    ELSE dst.px[p] ]_vars

\* the 10x10 rectangle at (-5,-5): its bottom-right 5x5 is in the canvas's
\* top-left 5x5 and the rest of the canvas is still zero
C6_Witness ==
    /\ pc = "ret"
    /\ cur.rep = TenRep
    /\ \A p \in Coords(10, 10) :
          dst.px[p] = IF p[1] < 5 /\ p[2] < 5 THEN ImgTen.px[<<p[1] + 5, p[2] + 5>>] ELSE 0

(***************************************************************************)
(* C7.  Last write wins: in the returned canvas of a view every pixel has  *)
(* the value written by the last instruction, in list order, that writes   *)
(* it (its destination rectangle covers the pixel and it has a source      *)
(* pixel for it), from whatever source, and is zero if none does.          *)
(***************************************************************************)
Writes(ins, p) ==
    /\ InRect(p, ins.rep)
    /\ SourceOf(p, ins.rep) \in Coords(Resolve(map, ins.key).w, Resolve(map, ins.key).h)

Written(ins, p) == Resolve(map, ins.key).px[SourceOf(p, ins.rep)]

RECURSIVE LastWrite(_, _, _)
LastWrite(coords, k, p) ==
    IF k = 0 THEN 0
    ELSE IF Writes(parse(coords[k]), p) THEN Written(parse(coords[k]), p)
         ELSE LastWrite(coords, k - 1, p)

C7_LastWriteWins ==
    pc = "done" =>
        \A i \in 1..Len(ptimg.views) :
            LET v == ptimg.views[i]
            IN  \A p \in Coords(v.width, v.height) :
                    out[i].px[p] = LastWrite(v.coords, Len(v.coords), p)

\* a returned canvas with a pixel that two instructions wrote, from two
\* sources, holding the second one's value
C7_Witness ==
    /\ pc = "done"
    /\ \E i \in 1..Len(ptimg.views) :
          LET v == ptimg.views[i]
          IN  /\ Len(v.coords) = 2
              /\ \E p \in Coords(v.width, v.height) :
                    /\ Writes(parse(v.coords[1]), p)
                    /\ Writes(parse(v.coords[2]), p)
                    /\ parse(v.coords[1]).key # parse(v.coords[2]).key
                    /\ out[i].px[p] = Written(parse(v.coords[2]), p)
                    /\ out[i].px[p] # Written(parse(v.coords[1]), p)

(***************************************************************************)
(* C8.  restore returns one canvas per view, in view-list order: the       *)
(* canvases collected so far are those of the views before the current     *)
(* one, the i-th has the i-th view's width and height, a view's canvas is  *)
(* all zero before its first instruction is applied, and a view with no    *)
(* instructions yields an all-zero canvas.                                 *)
(***************************************************************************)
C8_OneCanvasPerView ==
    /\ pc = "done" => Len(out) = Len(ptimg.views)
    /\ pc \in {"view", "coords", "apply"} => Len(out) = vi - 1
    /\ pc \in {"view", "coords", "apply", "done"} =>
          \A i \in 1..Len(out) :
              /\ out[i].w = ptimg.views[i].width
              /\ out[i].h = ptimg.views[i].height
              /\ DOMAIN out[i].px = Coords(out[i].w, out[i].h)
              /\ ptimg.views[i].coords = <<>> => \A p \in DOMAIN out[i].px : out[i].px[p] = 0
    /\ (pc = "coords" /\ ci = 1) =>
          /\ dst.w = ptimg.views[vi].width
          /\ dst.h = ptimg.views[vi].height
          /\ DOMAIN dst.px = Coords(dst.w, dst.h)
          /\ \A p \in DOMAIN dst.px : dst.px[p] = 0

\* two canvases returned for two views of different sizes, the first
\* painted and the second, of a view without instructions, all zero
C8_Witness ==
    /\ pc = "done"
    /\ Len(out) = 2
    /\ ptimg.views[1].coords # <<>>
    /\ ptimg.views[2].coords = <<>>
    /\ <<out[1].w, out[1].h>> = <<2, 2>>
    /\ <<out[2].w, out[2].h>> = <<1, 3>>
    /\ \E p \in DOMAIN out[1].px : out[1].px[p] # 0

(***************************************************************************)
(* C9.  An instruction whose source rectangle does not fit inside the      *)
(* resolved source image makes reconstruction report an error: restore     *)
(* returns canvases only if every instruction's rectangle fits.            *)
(***************************************************************************)
C9_NonFittingRectIsAnError ==
    pc = "done" =>
        \A i \in 1..Len(ptimg.views) :
            \A k \in 1..Len(ptimg.views[i].coords) :
                LET ins == parse(ptimg.views[i].coords[k])
                IN  Fits(ins.rep, Resolve(map, ins.key))

WellFormedView(v) == \A k \in 1..Len(v.coords) : parse(v.coords[k]).ok

\* the canvas of view v composed alone
AloneCanvas(v) ==
    [w  |-> v.width,
     h  |-> v.height,
     px |-> [p \in Coords(v.width, v.height) |-> LastWrite(v.coords, Len(v.coords), p)]]

\* what restore hands to its caller: the Vec when it returns, nothing when
\* it unwinds
ReturnedCanvases == IF pc = "done" THEN {out[k] : k \in 1..Len(out)} ELSE {}

C11_FailureIsolation ==
    pc \in {"done", "panic"} =>
        \A i \in 1..Len(ptimg.views) :
            WellFormedView(ptimg.views[i]) => AloneCanvas(ptimg.views[i]) \in ReturnedCanvases

(***************************************************************************)
(* A caller that calls restore a second time once the first call has       *)
(* returned: on the same descriptor and sources, or on the descriptor with *)
(* the key of one instruction replaced.  restore's locals are new in each  *)
(* call; the model keeps the old values until the call assigns them.       *)
(***************************************************************************)
\* a resolver that looks the key up before falling back to src
DriverMapKeyed(image) == [table |-> (KeyB :> ImgB), other |-> image]

\* line 56: the driver's resolver |_| &src
DriverMap(image) == [table |-> <<>>, other |-> image]

KeyAbsent == <<"z", "z">>

\* the instruction text with its leading alphabetic run replaced by key
Rekey(str, key) == key \o Drop(str, PrefixLen(Alpha, str))

RekeyedAt(p, i, k, key) ==
    [views |-> [p.views EXCEPT ![i].coords[k] = Rekey(p.views[i].coords[k], key)]]

TwicePtimgs ==
    ManyViewPtimgs
        \cup { [views |-> << View(2, 2, c) >>] : c \in SeqsUpTo(ViewStrings, MaxCoords) }

TwiceScenes == { <<p, m>> : p \in TwicePtimgs, m \in {KeyedMap, DriverMap(ImgA)} }

InitTwice == \E sc \in TwiceScenes : StartAt(sc[1], sc[2])

\* restore is entered again with descriptor p
Reenter(p, same) ==
    /\ pc = "done"
    /\ first = NoFirst
    /\ first' = [called |-> TRUE, same |-> same, out |-> out, ptimg |-> ptimg, map |-> map]
    /\ ptimg' = p
    /\ vi' = 1
    /\ ci' = 1
    /\ out' = <<>>
    /\ pc' = "view"
    /\ UNCHANGED <<map, s, cur, dst>>
    /\ UNCHANGED <<cacheVars, driverVars, argVars>>

CallAgain ==
    /\ pc = "done"
    /\ Reenter(ptimg, TRUE)

CallRekeyed ==
    \E i \in 1..Len(ptimg.views) :
        \E k \in 1..Len(ptimg.views[i].coords) :
            \E key \in {KeyA, KeyB, KeyAbsent} :
                /\ RekeyedAt(ptimg, i, k, key) # ptimg
                /\ Reenter(RekeyedAt(ptimg, i, k, key), FALSE)

NextTwice ==
    \/ BeginView \/ ParseOk \/ ParsePanic \/ ApplyRep \/ EndView \/ Return
    \/ CallAgain \/ CallRekeyed

SpecTwice == InitTwice /\ [][NextTwice]_vars

(***************************************************************************)
(* C12.  Idempotent composition: a second call of restore on the same      *)
(* descriptor with the same sources returns the canvases the first call    *)
(* returned, pixel for pixel and view for view, and leaves the descriptor  *)
(* and the sources as they were handed to it.                              *)
(***************************************************************************)
C12_SecondCallSameCanvases ==
    (pc = "done" /\ first.called /\ first.same) =>
        /\ out = first.out
        /\ ptimg = first.ptimg
        /\ map = first.map

\* a second call has returned two canvases, one of them painted
C12_Witness ==
    /\ pc = "done"
    /\ first.called
    /\ first.same
    /\ Len(out) = 2
    /\ out[1] = RgbaImageNew(2, 2)
    /\ \E p \in DOMAIN out[2].px : out[2].px[p] # 0

(***************************************************************************)
(* C15.  With the driver's resolver |_| &src the source key is ignored:    *)
(* restore on the descriptor with the key of one instruction replaced by   *)
(* another alphabetic key, also one that names no resource, returns        *)
(* exactly the canvases it returned for the descriptor as given.           *)
(***************************************************************************)
C15_KeyIgnoredByDriverResolver ==
    (pc = "done" /\ first.called /\ ~first.same /\ map = DriverMap(map.other)) =>
        out = first.out

\* the call on the descriptor re-keyed to "zz" has returned a painted canvas
C15_Witness ==
    /\ pc = "done"
    /\ first.called
    /\ ~first.same
    /\ map = DriverMap(ImgA)
    /\ \E i \in 1..Len(ptimg.views) :
          /\ Len(ptimg.views[i].coords) >= 1
          /\ parse(ptimg.views[i].coords[1]).key = KeyAbsent
          /\ parse(first.ptimg.views[i].coords[1]).key = KeyB
          /\ \E p \in DOMAIN out[i].px : out[i].px[p] # 0

(***************************************************************************)
(* try_use_cache_otherwise_fetch (lines 115-150).                          *)
(*                                                                         *)
(* A path is a directory and a name in it.  fs maps the paths of the files *)
(* that exist to their bytes, or to Unreadable for a file whose open or    *)
(* read fails with an error other than NotFound; dirs is the set of the    *)
(* directories that exist.  server maps a target to what reqwest::get      *)
(* meets there: a success status with a body, an error status, or no       *)
(* answer at all (a transport error).  A target the server does not know   *)
(* gets an error status.  reqs is the list of the requests sent.           *)
(***************************************************************************)
Path(dir, name) == [dir |-> dir, name |-> name]

Unreadable == [kind |-> "unreadable"]

Bytes(id) == [kind |-> "bytes", id |-> id]

StatusOk(body) == [status |-> "ok", body |-> body]

StatusError == [status |-> "error"]

NoAnswer == [status |-> "down"]

Answer(target) == IF target \in DOMAIN server THEN server[target] ELSE StatusError

\* Result<ControlFlow<Error, Vec<u8>>>
OkContinue(bytes) == [kind |-> "Continue", bytes |-> bytes]

OkBreak == [kind |-> "Break"]

ErrOf(what) == [kind |-> "Err", error |-> what]

\* what a call returns and what it leaves behind
Outcome(r, files, sent) == [ret |-> r, fs |-> files, reqs |-> sent]

\* the cache file is created before the request is sent
try_use_cache_create_first(path, target) ==
    IF path \in DOMAIN fs
    THEN IF fs[path] = Unreadable
         THEN Outcome(ErrOf("io"), fs, reqs)
         ELSE Outcome(OkContinue(fs[path]), fs, reqs)
    ELSE IF path.dir \notin dirs
         THEN Outcome(ErrOf("io"), fs, reqs)
         ELSE IF Answer(target).status = "down"
              THEN Outcome(ErrOf("transport"), fs @@ (path :> Bytes(0)), Append(reqs, target))
              ELSE IF Answer(target).status = "error"
                   THEN Outcome(OkBreak, fs @@ (path :> Bytes(0)), Append(reqs, target))
                   ELSE Outcome(OkContinue(Answer(target).body),
                                fs @@ (path :> Answer(target).body), Append(reqs, target))

\* the request is sent whether or not the cache file exists
try_use_cache_fetch_first(path, target) ==
    IF Answer(target).status = "ok" /\ path \notin DOMAIN fs /\ path.dir \in dirs
    THEN Outcome(OkContinue(Answer(target).body),
                 fs @@ (path :> Answer(target).body), Append(reqs, target))
    ELSE IF path \in DOMAIN fs /\ fs[path] # Unreadable
         THEN Outcome(OkContinue(fs[path]), fs, Append(reqs, target))
         ELSE Outcome(ErrOf("io"), fs, Append(reqs, target))

try_use_cache_otherwise_fetch(path, target) ==
    IF path \in DOMAIN fs
    THEN \* lines 120-127: Ok(f), read_to_end(..).await?
         IF fs[path] = Unreadable
         THEN Outcome(ErrOf("io"), fs, reqs)
         ELSE Outcome(OkContinue(fs[path]), fs, reqs)
    ELSE \* line 128: NotFound; line 131: reqwest::get(target).await?
         IF Answer(target).status = "down"
         THEN Outcome(ErrOf("transport"), fs, Append(reqs, target))
         ELSE \* lines 131-134: error_for_status(), return Ok(Break(e))
              IF Answer(target).status = "error"
              THEN Outcome(OkBreak, fs, Append(reqs, target))
              ELSE \* lines 138-143: create_new(true).open(path).await?
                   IF path.dir \notin dirs
                   THEN Outcome(ErrOf("io"), fs, Append(reqs, target))
                   ELSE \* lines 144-146: write_all, Ok(Continue(bytes))
                        Outcome(OkContinue(Answer(target).body),
                                fs @@ (path :> Answer(target).body), Append(reqs, target))

(***************************************************************************)
(* Calls of try_use_cache_otherwise_fetch, one after the other, on paths   *)
(* and targets of a small world; log keeps each call with the files before *)
(* and after it.                                                           *)
(***************************************************************************)
MaxCalls == 3

FetchPaths == {Path(d, "f") : d \in {1, 2}}

FetchTargets == {"t1", "t2", "t3", "t4"}

FetchServer == ("t1" :> StatusOk(Bytes(1))) @@ ("t2" :> StatusOk(Bytes(2)))
                   @@ ("t3" :> StatusError) @@ ("t4" :> NoAnswer)

InitFetch ==
    /\ fs \in {<<>>, Path(1, "f") :> Bytes(9), Path(1, "f") :> Unreadable}
    /\ dirs \in {{1}, {1, 2}}
    /\ server = FetchServer
    /\ reqs = <<>>
    /\ ret = NoRet
    /\ log = <<>>
    /\ first = NoFirst
    /\ ptimg = [views |-> <<>>]
    /\ map = DriverMap(NoImage)
    /\ vi = 1
    /\ ci = 1
    /\ s = <<>>
    /\ cur = Panic
    /\ dst = NoImage
    /\ out = <<>>
    /\ pc = "idle"
    /\ idx = 0
    /\ jdx = 0
    /\ dpc = "idle"
    /\ ptb = NoBytes
    /\ rdb = NoBytes
    /\ ogimg = NoImage
    /\ argv = <<>>
    /\ ai = 0
    /\ state = None
    /\ args = <<>>
    /\ apc = "idle"

FetchCall ==
    /\ Len(log) < MaxCalls
    /\ \E path \in FetchPaths, target \in FetchTargets :
          /\ ret' = try_use_cache_otherwise_fetch(path, target).ret
          /\ fs' = try_use_cache_otherwise_fetch(path, target).fs
          /\ reqs' = try_use_cache_otherwise_fetch(path, target).reqs
          /\ log' = Append(log, [path |-> path, target |-> target,
                                 before |-> fs, after |-> fs',
                                 sent |-> Len(reqs') - Len(reqs), ret |-> ret'])
    /\ UNCHANGED <<dirs, server>>
    /\ UNCHANGED <<restoreVars, first, idx, jdx, dpc, ptb, rdb, ogimg, argVars>>

NextFetch == FetchCall

SpecFetch == InitFetch /\ [][NextFetch]_vars

(***************************************************************************)
(* C16.  As claimed: when the file at path exists the call returns its     *)
(* bytes and sends no request; when it does not exist and the fetch of the *)
(* target succeeds, the fetched bytes are stored at path and returned, and *)
(* every later call with that path returns the same bytes and sends no     *)
(* request.                                                                *)
(***************************************************************************)
Existed(e) == e.path \in DOMAIN e.before

LaterCallsReturn(k, bytes) ==
    \A n \in (k + 1)..Len(log) :
        log[n].path = log[k].path => (log[n].ret = OkContinue(bytes) /\ log[n].sent = 0)

C16_CacheFirstAsClaimed ==
    \A k \in 1..Len(log) :
        /\ Existed(log[k]) =>
              /\ log[k].sent = 0
              /\ log[k].ret = OkContinue(log[k].before[log[k].path])
        /\ (~Existed(log[k]) /\ Answer(log[k].target).status = "ok") =>
              /\ log[k].ret = OkContinue(Answer(log[k].target).body)
              /\ log[k].path \in DOMAIN log[k].after
              /\ log[k].after[log[k].path] = Answer(log[k].target).body
              /\ LaterCallsReturn(k, Answer(log[k].target).body)

\* C16, amended: a call whose file exists sends no request, and returns the
\* file's bytes if the file can be read and Err otherwise; a call whose file
\* does not exist sends one request, and when the fetch succeeds it stores
\* and returns the fetched bytes if the file can be created (its directory
\* exists) and returns Err, storing nothing, otherwise; every later call
\* with the path of a file stored so returns the same bytes and sends no
\* request.
C16_CacheFirstWhenFilesWork ==
    \A k \in 1..Len(log) :
        /\ Existed(log[k]) =>
              /\ log[k].sent = 0
              /\ log[k].after = log[k].before
              /\ log[k].ret = IF log[k].before[log[k].path] = Unreadable
                              THEN ErrOf("io")
                              ELSE OkContinue(log[k].before[log[k].path])
        /\ ~Existed(log[k]) => log[k].sent = 1
        /\ (~Existed(log[k]) /\ Answer(log[k].target).status = "ok") =>
              IF log[k].path.dir \in dirs
              THEN /\ log[k].ret = OkContinue(Answer(log[k].target).body)
                   /\ log[k].after = log[k].before @@ (log[k].path :> Answer(log[k].target).body)
                   /\ LaterCallsReturn(k, Answer(log[k].target).body)
              ELSE /\ log[k].ret = ErrOf("io")
                   /\ log[k].after = log[k].before

\* a fetch was stored and a later call with the same path and another
\* target returned the stored bytes without a request
C16_Witness ==
    /\ Len(log) >= 2
    /\ ~Existed(log[1])
    /\ log[1].target = "t1"
    /\ log[1].ret = OkContinue(Bytes(1))
    /\ log[2].path = log[1].path
    /\ log[2].target = "t2"
    /\ log[2].sent = 0
    /\ log[2].ret = OkContinue(Bytes(1))

(***************************************************************************)
(* C17.  When the cache file is absent and the server answers with an      *)
(* error status, the call returns Ok(Break(error)) and leaves the files as *)
(* they were: no cache file is created, and the next call for the same     *)
(* path sends a request again.                                             *)
(***************************************************************************)
C17_ErrorStatusLeavesNoFile ==
    \A k \in 1..Len(log) :
        (~Existed(log[k]) /\ Answer(log[k].target).status = "error") =>
            /\ log[k].ret = OkBreak
            /\ log[k].after = log[k].before
            /\ log[k].path \notin DOMAIN log[k].after
            /\ log[k].sent = 1
            /\ \A n \in (k + 1)..Len(log) :
                  (log[n].path = log[k].path /\ \A m \in (k + 1)..(n - 1) : log[m].path # log[k].path)
                      => log[n].sent = 1

\* an error status, then a second call for the same path that fetched
C17_Witness ==
    /\ Len(log) >= 2
    /\ log[1].target = "t3"
    /\ log[1].ret = OkBreak
    /\ log[2].path = log[1].path
    /\ log[2].target = "t1"
    /\ log[2].sent = 1
    /\ log[2].ret = OkContinue(Bytes(1))
    /\ reqs = <<"t3", "t1">>

(***************************************************************************)
(* main (lines 7-74): the grid loop.                                       *)
(*                                                                         *)
(* The row idx keeps its cache files in the directory ./{dist}/{idx:02},   *)
(* written <<"cache", idx>>; cell (idx, jdx) has the files                 *)
(* {jdx:04}.ptimg.json, {jdx:04}.jpg and {jdx:04}.webp in it and the       *)
(* targets <<idx, jdx, "ptimg.json">> and <<idx, jdx, "jpg">>.  The        *)
(* directory that line 20 creates is the one named by `target`, written    *)
(* <<"target", idx>>; <<"blocked", idx>> in dirs stands for whatever makes *)
(* create_dir_all fail for the row.                                        *)
(*                                                                         *)
(* The bytes of a file or of a body are given by what they decode to.      *)
(***************************************************************************)
CacheDir(i) == <<"cache", i>>

TargetDir(i) == <<"target", i>>

Blocked(i) == <<"blocked", i>>

PtimgPath(i, j) == Path(CacheDir(i), <<j, "ptimg.json">>)

JpgPath(i, j) == Path(CacheDir(i), <<j, "jpg">>)

WebpPath(i, j) == Path(CacheDir(i), <<j, "webp">>)

Target(i, j, ext) == <<i, j, ext>>

\* bytes that serde_json decodes to the descriptor p
JsonBytes(p) == [kind |-> "json", pt |-> p]

\* bytes that image::load_from_memory decodes to image
ImageBytes(image) == [kind |-> "image", img |-> image]

\* bytes that decode to neither
Junk == [kind |-> "junk"]

\* the WebP encoding of a canvas
WebpBytes(canvas) == [kind |-> "webp", img |-> canvas]

\* one step of the driver on a cell, for the record of steps
Step(what, ok) == [step |-> what, idx |-> idx, jdx |-> jdx, ok |-> ok]

(***************************************************************************)
(* The worlds the driver is run in: what the server holds, which files     *)
(* and directories exist beforehand.                                       *)
(***************************************************************************)
MaxIdx == 2

MaxJdx == 2

CellView(j) ==
    IF j % 2 = 1 THEN View(2, 2, << Format(Tup(KeyA, 0, 0, 2, 2, 0, 0)) >>)
    ELSE View(2, 2, << Format(Tup(KeyB, 0, 1, 2, 2, 1, 0)) >>)

CellImage(j) == IF j % 2 = 1 THEN ImgA ELSE ImgB

CellPtimg(kind, j) ==
    IF kind = "noview" THEN [views |-> <<>>]
    ELSE IF kind = "twoviews"
         THEN [views |-> << CellView(j), View(1, 3, << Format(Tup(KeyA, 1, 1, 2, 2, 0, 1)) >>) >>]
    ELSE IF kind = "badinstr"
         THEN [views |-> << CellView(j), View(2, 2, << MissingDest >>) >>]
    ELSE [views |-> << CellView(j) >>]

ServerKinds ==
    {"oneview", "twoviews", "noview", "badinstr", "junkjson", "junkimage",
     "imagedown", "imagemissing"}

\* the server of a world: row i has the cells 1..rowLen[i]
ServerOf(rowLen, kind) ==
    [t \in { Target(i, j, ext) : i \in 1..MaxIdx, j \in 1..MaxJdx, ext \in {"ptimg.json", "jpg"} }
        |-> IF t[2] > rowLen[t[1]] THEN StatusError
            ELSE IF t[3] = "ptimg.json"
                 THEN IF kind = "junkjson" THEN StatusOk(Junk)
                      ELSE StatusOk(JsonBytes(CellPtimg(kind, t[2])))
            ELSE IF kind = "junkimage" THEN StatusOk(Junk)
            ELSE IF kind = "imagedown" THEN NoAnswer
            ELSE IF kind = "imagemissing" THEN StatusError
            ELSE StatusOk(ImageBytes(CellImage(t[2])))]

AllCacheDirs == {CacheDir(i) : i \in 1..MaxIdx}

\* a disk with the cache directories and no file
PlainDisk == [fs |-> <<>>, dirs |-> AllCacheDirs]

\* files and directories left by earlier runs or put there by the user
Disks ==
    { PlainDisk,
      [fs |-> <<>>, dirs |-> {}],
      [fs |-> <<>>, dirs |-> AllCacheDirs \cup {Blocked(MaxIdx)}],
      [fs |-> (PtimgPath(1, 1) :> JsonBytes(CellPtimg("twoviews", 2)))
                 @@ (JpgPath(1, 1) :> ImageBytes(ImgB)),
       dirs |-> AllCacheDirs],
      [fs |-> (PtimgPath(1, 1) :> Unreadable), dirs |-> AllCacheDirs],
      [fs |-> (WebpPath(1, 1) :> WebpBytes(NoImage)), dirs |-> AllCacheDirs] }

\* every kind of server on the plain disk, and two kinds on every disk
Worlds ==
    { <<kind, PlainDisk>> : kind \in ServerKinds }
        \cup { <<kind, d>> : kind \in {"oneview", "imagemissing"}, d \in Disks }

InitDriver ==
    /\ \E rowLen \in [1..MaxIdx -> 0..MaxJdx], w \in Worlds :
          /\ server = ServerOf(rowLen, w[1])
          /\ fs = w[2].fs
          /\ dirs = w[2].dirs
    /\ reqs = <<>>
    /\ ret = NoRet
    /\ idx = 1
    /\ jdx = 0
    /\ dpc = "row"
    /\ ptb = NoBytes
    /\ rdb = NoBytes
    /\ ogimg = NoImage
    /\ log = <<>>
    /\ first = NoFirst
    /\ ptimg = [views |-> <<>>]
    /\ map = DriverMap(NoImage)
    /\ vi = 1
    /\ ci = 1
    /\ s = <<>>
    /\ cur = Panic
    /\ dst = NoImage
    /\ out = <<>>
    /\ pc = "idle"
    /\ argv = <<>>
    /\ ai = 0
    /\ state = None
    /\ args = <<>>
    /\ apc = "idle"

\* the `break` of lines 34 and 47 ends the program instead of the row
BreakToExit ==
    /\ dpc' = "exit"
    /\ UNCHANGED <<idx, jdx>>

\* `continue` in the place of the `break` of lines 34 and 47
ContinueInner ==
    /\ jdx' = jdx + 1
    /\ dpc' = "ptimg"
    /\ UNCHANGED idx

\* lines 32-35 and 45-48: eprintln!, break: the inner loop ends and the
\* outer `for idx in 1..` takes its next index
BreakInner ==
    /\ idx' = idx + 1
    /\ dpc' = "row"
    /\ UNCHANGED jdx

\* lines 16-22: the row's paths, create_dir_all(&target).unwrap(), and the
\* first jdx of `for jdx in 1..`
RowStart ==
    /\ dpc = "row"
    /\ idx <= MaxIdx
    /\ IF Blocked(idx) \in dirs
       THEN /\ dpc' = "abort"
            /\ UNCHANGED <<dirs, jdx>>
       ELSE /\ dirs' = dirs \cup {TargetDir(idx)}
            /\ jdx' = 1
            /\ dpc' = "ptimg"
    /\ UNCHANGED <<idx, fs, server, reqs, ret, ptb, rdb, ogimg, log>>
    /\ UNCHANGED <<restoreVars, first, argVars>>

\* lines 26-37: let ptimg = match try_use_cache_otherwise_fetch(..).await
FetchPtimg ==
    /\ dpc = "ptimg"
    /\ ret' = try_use_cache_otherwise_fetch(PtimgPath(idx, jdx), Target(idx, jdx, "ptimg.json")).ret
    /\ fs' = try_use_cache_otherwise_fetch(PtimgPath(idx, jdx), Target(idx, jdx, "ptimg.json")).fs
    /\ reqs' = try_use_cache_otherwise_fetch(PtimgPath(idx, jdx), Target(idx, jdx, "ptimg.json")).reqs
    /\ log' = Append(log, Step("ptimg", ret'.kind = "Continue"))
    /\ IF ret'.kind = "Continue"
       THEN /\ ptb' = ret'.bytes
            /\ dpc' = "rdimg"
            /\ UNCHANGED <<idx, jdx>>
       ELSE /\ BreakInner
            /\ UNCHANGED ptb
    /\ UNCHANGED <<dirs, server, rdb, ogimg>>
    /\ UNCHANGED <<restoreVars, first, argVars>>

\* lines 39-50: let rdimg = match try_use_cache_otherwise_fetch(..).await
FetchRdimg ==
    /\ dpc = "rdimg"
    /\ ret' = try_use_cache_otherwise_fetch(JpgPath(idx, jdx), Target(idx, jdx, "jpg")).ret
    /\ fs' = try_use_cache_otherwise_fetch(JpgPath(idx, jdx), Target(idx, jdx, "jpg")).fs
    /\ reqs' = try_use_cache_otherwise_fetch(JpgPath(idx, jdx), Target(idx, jdx, "jpg")).reqs
    /\ log' = Append(log, Step("rdimg", ret'.kind = "Continue"))
    /\ IF ret'.kind = "Continue"
       THEN /\ rdb' = ret'.bytes
            /\ dpc' = "decode"
            /\ UNCHANGED <<idx, jdx>>
       ELSE /\ BreakInner
            /\ UNCHANGED rdb
    /\ UNCHANGED <<dirs, server, ptb, ogimg>>
    /\ UNCHANGED <<restoreVars, first, argVars>>

\* lines 53-55: load_from_memory(&rdimg).unwrap(), from_slice(&ptimg).unwrap(),
\* and the entry of pt.restore(|_| &src)
Decode ==
    /\ dpc = "decode"
    /\ IF rdb.kind = "image" /\ ptb.kind = "json"
       THEN /\ ptimg' = ptb.pt
            /\ map' = DriverMap(rdb.img)
            /\ vi' = 1
            /\ ci' = 1
            /\ out' = <<>>
            /\ pc' = "view"
            /\ dpc' = "restore"
       ELSE /\ dpc' = "abort"
            /\ UNCHANGED <<ptimg, map, vi, ci, out, pc>>
    /\ UNCHANGED <<s, cur, dst>>
    /\ UNCHANGED <<idx, jdx, ptb, rdb, ogimg, log>>
    /\ UNCHANGED <<cacheVars, first, argVars>>

\* line 256 reached from line 55: the panic of parse unwinds main
Unwind ==
    /\ dpc = "restore"
    /\ pc = "panic"
    /\ dpc' = "abort"
    /\ UNCHANGED <<idx, jdx, ptb, rdb, ogimg, log>>
    /\ UNCHANGED <<restoreVars, cacheVars, first, argVars>>

\* .pop() in the place of .remove(0)
RemoveLast ==
    /\ dpc = "restore"
    /\ pc = "done"
    /\ IF out = <<>>
       THEN /\ dpc' = "abort"
            /\ UNCHANGED ogimg
       ELSE /\ ogimg' = out[Len(out)]
            /\ dpc' = "write"
    /\ UNCHANGED <<idx, jdx, ptb, rdb, log>>
    /\ UNCHANGED <<restoreVars, cacheVars, first, argVars>>

\* line 56: .remove(0) on the Vec restore returned; it panics on an empty Vec
RemoveFirst ==
    /\ dpc = "restore"
    /\ pc = "done"
    /\ IF out = <<>>
       THEN /\ dpc' = "abort"
            /\ UNCHANGED ogimg
       ELSE /\ ogimg' = out[1]
            /\ dpc' = "write"
    /\ UNCHANGED <<idx, jdx, ptb, rdb, log>>
    /\ UNCHANGED <<restoreVars, cacheVars, first, argVars>>

\* create(true).truncate(true) in the place of create_new(true)
WriteOutputTruncating ==
    /\ dpc = "write"
    /\ fs' = [p \in DOMAIN fs \cup {WebpPath(idx, jdx)} |->
                 IF p = WebpPath(idx, jdx) THEN WebpBytes(ogimg) ELSE fs[p]]
    /\ log' = Append(log, Step("write", TRUE))
    /\ jdx' = jdx + 1
    /\ dpc' = "ptimg"
    /\ UNCHANGED <<idx, dirs, server, reqs, ret, ptb, rdb, ogimg>>
    /\ UNCHANGED <<restoreVars, first, argVars>>

\* lines 59-71: ogimg.write_to(create_new(true).write(true).open("{path}.webp")
\* .await.unwrap() .., WebP).unwrap(), then the next jdx
WriteOutput ==
    /\ dpc = "write"
    /\ IF WebpPath(idx, jdx) \in DOMAIN fs \/ CacheDir(idx) \notin dirs
       THEN /\ dpc' = "abort"
            /\ log' = Append(log, Step("write", FALSE))
            /\ UNCHANGED <<fs, jdx>>
       ELSE /\ fs' = fs @@ (WebpPath(idx, jdx) :> WebpBytes(ogimg))
            /\ log' = Append(log, Step("write", TRUE))
            /\ jdx' = jdx + 1
            /\ dpc' = "ptimg"
    /\ UNCHANGED <<idx, dirs, server, reqs, ret, ptb, rdb, ogimg>>
    /\ UNCHANGED <<restoreVars, first, argVars>>

NextDriver ==
    \/ RowStart \/ FetchPtimg \/ FetchRdimg \/ Decode
    \/ BeginView \/ ParseOk \/ ParsePanic \/ ApplyRep \/ EndView \/ Return
    \/ Unwind \/ RemoveFirst \/ WriteOutput

SpecDriver == InitDriver /\ [][NextDriver]_vars

\* main is the one task of the runtime: it runs whenever it can take a step
SpecDriverFair == SpecDriver /\ WF_vars(NextDriver)

IsOutput(p) == p.name[2] = "webp"

C14_FirstViewIsTheOutput ==
    [][ /\ (dpc = "restore" /\ pc = "done" /\ Len(ptimg.views) >= 1) =>
             /\ ptimg = ptb.pt
             /\ Len(out) = Len(ptimg.views)
             /\ dpc' = "write"
             /\ ogimg' = AloneCanvas(ptimg.views[1])
        /\ (dpc = "write" /\ WebpPath(idx, jdx) \notin DOMAIN fs) =>
             /\ dpc' = "ptimg"
             /\ fs' = fs @@ (WebpPath(idx, jdx) :> WebpBytes(AloneCanvas(ptimg.views[1])))
        /\ \A p \in DOMAIN fs' \ DOMAIN fs :
             IsOutput(p) => (dpc = "write" /\ p = WebpPath(idx, jdx)) ]_vars

\* the output of cell (1,1) is written: the first of two different canvases
C14_Witness ==
    /\ idx = 1
    /\ jdx = 2
    /\ dpc = "ptimg"
    /\ Len(out) = 2
    /\ out[1] # out[2]
    /\ WebpPath(1, 1) \in DOMAIN fs
    /\ fs[WebpPath(1, 1)] = WebpBytes(out[1])
    /\ \E p \in DOMAIN out[1].px : out[1].px[p] # 0

(***************************************************************************)
(* C18.  Within a cell the driver obtains the descriptor, then the image,  *)
(* then writes the output: the image is requested only when the descriptor *)
(* was obtained and the output is written only after both were.  A cell    *)
(* for which a retrieval failed has no output written, and no later cell   *)
(* of its row is attempted.                                                *)
(***************************************************************************)
SameCell(a, b) == a.idx = b.idx /\ a.jdx = b.jdx

C18_DescriptorThenImageThenOutput ==
    /\ \A k \in 1..Len(log) :
          /\ log[k].step = "rdimg" =>
                /\ k > 1
                /\ log[k - 1].step = "ptimg" /\ log[k - 1].ok /\ SameCell(log[k - 1], log[k])
          /\ log[k].step = "write" =>
                /\ k > 2
                /\ log[k - 1].step = "rdimg" /\ log[k - 1].ok /\ SameCell(log[k - 1], log[k])
                /\ log[k - 2].step = "ptimg" /\ log[k - 2].ok /\ SameCell(log[k - 2], log[k])
          /\ (log[k].step \in {"ptimg", "rdimg"} /\ ~log[k].ok) =>
                /\ \A n \in 1..Len(log) : (log[n].step = "write" => ~SameCell(log[n], log[k]))
                /\ \A n \in (k + 1)..Len(log) : log[n].idx # log[k].idx
                /\ idx # log[k].idx
    /\ \A r \in 1..Len(reqs) :
          reqs[r][3] = "jpg" =>
              \E k \in 1..Len(log) :
                  /\ log[k].step = "ptimg" /\ log[k].ok
                  /\ log[k].idx = reqs[r][1] /\ log[k].jdx = reqs[r][2]

\* cell (1,1) was written, the descriptor of cell (1,2) could not be
\* retrieved, and the driver is in row 2
C18_Witness ==
    /\ idx = 2
    /\ Len(log) >= 4
    /\ log[1] = [step |-> "ptimg", idx |-> 1, jdx |-> 1, ok |-> TRUE]
    /\ log[2] = [step |-> "rdimg", idx |-> 1, jdx |-> 1, ok |-> TRUE]
    /\ log[3] = [step |-> "write", idx |-> 1, jdx |-> 1, ok |-> TRUE]
    /\ log[4] = [step |-> "ptimg", idx |-> 1, jdx |-> 2, ok |-> FALSE]
    /\ reqs[2] = Target(1, 1, "jpg")

(***************************************************************************)
(* C19.  The driver never overwrites or modifies an existing file: a file  *)
(* that exists keeps its content in every step, so a cache file and an     *)
(* output appear only at paths where no file was, and when the output of   *)
(* the cell already exists the process aborts and leaves it as it is.      *)
(***************************************************************************)
C19_ExistingFilesKept ==
    [][ /\ \A p \in DOMAIN fs : p \in DOMAIN fs' /\ fs'[p] = fs[p]
        /\ (dpc = "write" /\ WebpPath(idx, jdx) \in DOMAIN fs) =>
              (dpc' = "abort" /\ fs' = fs) ]_vars

\* the output of cell (1,1) existed: the driver has aborted at the write,
\* the file is as it was and the cache files fetched before it are kept
C19_Witness ==
    /\ dpc = "abort"
    /\ log[Len(log)] = [step |-> "write", idx |-> 1, jdx |-> 1, ok |-> FALSE]
    /\ fs[WebpPath(1, 1)] = WebpBytes(NoImage)
    /\ PtimgPath(1, 1) \in DOMAIN fs
    /\ JpgPath(1, 1) \in DOMAIN fs

(***************************************************************************)
(* parse_args (lines 76-103) and take_arg! (lines 105-113).                *)
(*                                                                         *)
(* argv is std::env::args(): the program's name, then the arguments.  The  *)
(* fold visits it from left to right; ai is the position of the next       *)
(* token, state the accumulator of the fold, args the HashMap.             *)
(***************************************************************************)
\* str::strip_prefix("--")
strip_prefix(arg) ==
    IF Len(arg) >= 2 /\ arg[1] = "-" /\ arg[2] = "-" THEN Some(Drop(arg, 2)) ELSE None

\* an insert that keeps the value the key already has
insert_keep_old(m, k, v) ==
    [x \in DOMAIN m \cup {k} |-> IF x \in DOMAIN m THEN m[x] ELSE v]

\* HashMap::insert and HashMap::remove
insert(m, k, v) == [x \in DOMAIN m \cup {k} |-> IF x = k THEN v ELSE m[x]]

remove(m, k) == [x \in DOMAIN m \ {k} |-> m[x]]

Prog == <<"b", "b", "b">>

KeyTarget == <<"t", "a", "r", "g", "e", "t">>

KeyDist == <<"d", "i", "s", "t">>

Dashes == <<"-", "-">>

Tokens ==
    { Dashes \o KeyTarget, Dashes \o KeyDist, Dashes, <<"-", "x">>, <<"u">>, <<"v">> }

MaxArgs == 4

InitArgs ==
    /\ \E r \in SeqsUpTo(Tokens, MaxArgs) : argv = <<Prog>> \o r
    /\ ai = 1
    /\ state = None
    /\ args = <<>>
    /\ apc = "fold"
    /\ first = NoFirst
    /\ ptimg = [views |-> <<>>]
    /\ map = DriverMap(NoImage)
    /\ vi = 1
    /\ ci = 1
    /\ s = <<>>
    /\ cur = Panic
    /\ dst = NoImage
    /\ out = <<>>
    /\ pc = "idle"
    /\ fs = <<>>
    /\ dirs = {}
    /\ server = <<>>
    /\ reqs = <<>>
    /\ ret = NoRet
    /\ idx = 0
    /\ jdx = 0
    /\ dpc = "idle"
    /\ ptb = NoBytes
    /\ rdb = NoBytes
    /\ ogimg = NoImage
    /\ log = <<>>

\* lines 80-87: the arm None of the fold
ExpectKey ==
    /\ apc = "fold"
    /\ ai <= Len(argv)
    /\ state = None
    /\ state' = strip_prefix(argv[ai])
    /\ ai' = ai + 1
    /\ UNCHANGED <<argv, args, apc>>
    /\ UNCHANGED <<restoreVars, first, cacheVars, driverVars>>

\* lines 89-96: the arm Some(ident) of the fold
ExpectValue ==
    /\ apc = "fold"
    /\ ai <= Len(argv)
    /\ state # None
    /\ args' = insert(args, state.val, argv[ai])
    /\ state' = None
    /\ ai' = ai + 1
    /\ UNCHANGED <<argv, apc>>
    /\ UNCHANGED <<restoreVars, first, cacheVars, driverVars>>

\* lines 79, 97-102: let None = .. else { exit(1) }; args
FoldEnd ==
    /\ apc = "fold"
    /\ ai > Len(argv)
    /\ apc' = IF state = None THEN "take_target" ELSE "exit1"
    /\ UNCHANGED <<argv, ai, state, args>>
    /\ UNCHANGED <<restoreVars, first, cacheVars, driverVars>>

\* line 10: take_arg!(target from args)
TakeTarget ==
    /\ apc = "take_target"
    /\ IF KeyTarget \in DOMAIN args
       THEN /\ args' = remove(args, KeyTarget)
            /\ apc' = "take_dist"
       ELSE /\ apc' = "exit1"
            /\ UNCHANGED args
    /\ UNCHANGED <<argv, ai, state>>
    /\ UNCHANGED <<restoreVars, first, cacheVars, driverVars>>

\* line 11: take_arg!(dist from args)
TakeDist ==
    /\ apc = "take_dist"
    /\ IF KeyDist \in DOMAIN args
       THEN /\ args' = remove(args, KeyDist)
            /\ apc' = "ready"
       ELSE /\ apc' = "exit1"
            /\ UNCHANGED args
    /\ UNCHANGED <<argv, ai, state>>
    /\ UNCHANGED <<restoreVars, first, cacheVars, driverVars>>

NextArgs == ExpectKey \/ ExpectValue \/ FoldEnd \/ TakeTarget \/ TakeDist

SpecArgs == InitArgs /\ [][NextArgs]_vars

(***************************************************************************)
(* The two-state machine of C20, read off the argument list by position:   *)
(* a token is a key when it starts with "--" and the token before it is    *)
(* not a key; the token after a key is its value.                          *)
(***************************************************************************)
StartsWithDashes(tok) == Len(tok) >= 2 /\ SubSeq(tok, 1, 2) = Dashes

RECURSIVE IsKeyAt(_, _)
IsKeyAt(a, i) ==
    /\ i >= 1
    /\ StartsWithDashes(a[i])
    /\ ~IsKeyAt(a, i - 1)

\* the keys that have a value, the last position of each and the map claimed
KeyPositions(a) == {i \in 1..(Len(a) - 1) : IsKeyAt(a, i)}

LastPosition(a, k) ==
    CHOOSE i \in KeyPositions(a) :
        /\ Drop(a[i], 2) = k
        /\ \A n \in KeyPositions(a) : Drop(a[n], 2) = k => n <= i

ClaimedMap(a) ==
    [k \in {Drop(a[i], 2) : i \in KeyPositions(a)} |-> a[LastPosition(a, k) + 1]]

EndsExpectingValue(a) == Len(a) >= 1 /\ IsKeyAt(a, Len(a))

\* the fold is where the machine says, and parse_args returns the map
FoldAsClaimed ==
    /\ apc = "fold" =>
          /\ state # None <=> (ai > 1 /\ IsKeyAt(argv, ai - 1))
          /\ state # None => state.val = Drop(argv[ai - 1], 2)
          /\ args = ClaimedMap(SubSeq(argv, 1, IF state = None THEN ai - 1 ELSE ai - 2))
    /\ apc = "take_target" => args = ClaimedMap(argv)

(***************************************************************************)
(* C20.  As claimed: parse_args folds the argument list with the           *)
(* two-state machine, the returned map binds each key to the value of its  *)
(* last occurrence, and the process exits with status 1 exactly when the   *)
(* argument list ends while a value is still expected.                     *)
(***************************************************************************)
C20_ExitOnlyWhenUnterminated ==
    /\ FoldAsClaimed
    /\ apc = "exit1" <=> (apc # "fold" /\ EndsExpectingValue(argv))

\* C20, amended: parse_args folds the argument list with the two-state
\* machine and returns the map that binds each key to the value of its last
\* occurrence; parse_args exits with status 1 exactly when the list ends
\* while a value is still expected, and the process also exits with status
\* 1, in take_arg!, when the map has no key "target" or no key "dist".
C20_ExitWhenUnterminatedOrKeyMissing ==
    /\ FoldAsClaimed
    /\ apc = "exit1" <=>
          /\ apc # "fold"
          /\ \/ EndsExpectingValue(argv)
             \/ apc # "take_target" /\ KeyTarget \notin DOMAIN ClaimedMap(argv)
             \/ apc \notin {"take_target", "take_dist"} /\ KeyDist \notin DOMAIN ClaimedMap(argv)

\* "bbb --target u --target --dist": target is bound to the value of its
\* last occurrence, and that value is the token "--dist"
C20_Witness ==
    /\ apc = "take_target"
    /\ argv = <<Prog, Dashes \o KeyTarget, <<"u">>, Dashes \o KeyTarget, Dashes \o KeyDist>>
    /\ args = (KeyTarget :> (Dashes \o KeyDist))

====
